---- MODULE Spec2Model ----
(***************************************************************************)
(* Model of the gamified GitHub/Discord bot (src/gamified_bot.py): the     *)
(* score ledger self.user_data, the SQLite table users, the repository     *)
(* handle self.repo, the global checkpoint self.last_global_check and the  *)
(* reconciliation pass poll_github_once, run by the periodic task and by   *)
(* the update_stats command on one asyncio event loop.                     *)
(*                                                                         *)
(* Time is a natural number: Epoch is 1970-01-01 and clock is the value    *)
(* datetime.now(timezone.utc) returns.  The repository's activity feed is  *)
(* the set events; the environment adds to it at any moment, also while a  *)
(* pass is blocked in one of its synchronous GitHub calls.                 *)
(*                                                                         *)
(* Spec is the bot as a whole.  SpecSaved is the bot when no write to the  *)
(* table fails; SpecScore is a pass over one freshly linked user with any  *)
(* activity; SpecLeaderboard is the leaderboard command next to the        *)
(* passes; SpecGemini is one call of call_gemini; SpecBadges is            *)
(* update_badges applied to any record; SpecDemo is the pass of            *)
(* src/demo.py, which has neither the table nor the try/except.            *)
(***************************************************************************)
EXTENDS Integers, Sequences, FiniteSets, TLC

\* ------------------------------------------------------------------ bounds
MaxTime == 2
\* Rows of the table that may lag behind the ledger at one time.
MaxStale == 1
\* Commits, comments and reviews a user can have waiting for one pass.
MaxCount == 3
\* Times update_badges is applied to one record in a row.
MaxApplications == 2

DiscordIds == {1, 2}
Handles == {"alice", "bob"}
\* The GitHub users with activity in the repository.
Authors == {"alice"}
\* The !link_github messages sent: who links which GitHub user.
LinkRequests == {<<1, "alice">>, <<2, "bob">>}
Kinds == {"commit", "comment", "review"}
Tasks == {"timer", "cmd"}

\* ------------------------------------------------------- program constants
CommitPoints == 10
CommentPoints == 5
ReviewPoints == 15
ChallengeBonus == 20
BronzeThreshold == 10
SilverThreshold == 50
GoldThreshold == 100
Bronze == "Bronze Collaborator"
Silver == "Silver Collaborator"
Gold == "Gold Collaborator"

\* Python's None, for self.repo and for current_challenge.
None == "None"
\* The repository object self.github.get_repo returns.
RepoObj == "owner/repo"
\* What call_gemini hands to my_challenge: a non-empty text (a generated
\* challenge or one of its error strings).
ChallengeTexts == {"Review one PR"}
\* datetime.now(timezone.utc) - timedelta(seconds=time.time())
Epoch == 0

VARIABLES
    repo,               \* self.repo
    user_data,          \* self.user_data: discord id -> record
    order,              \* insertion order of self.user_data (dict iteration order)
    db,                 \* table users of user_data.db: discord id -> row
    last_global_check,  \* self.last_global_check
    clock,              \* wall clock
    events,             \* activity of the tracked repository
    current,            \* the task the event loop is running, or "idle"
    pass,               \* per task: the frame of its poll_github_once call
    inbox,              \* update_stats commands received and not yet handled
    scored,             \* history: <<discord id, event>> -> passes that counted it
    refused,            \* history: a link_github was answered 'set the repository first'
    gem,                \* the frame of a call_gemini call and the service's answers
    lb,                 \* the frame of a leaderboard command
    lab,                \* a record update_badges is applied to, then the results
    crashed             \* demo.py: the tasks an exception of a pass has ended

\* The frames of the calls studied on their own; the commands and the pass
\* of the bot never write them.
aux == <<gem, lb, lab, crashed>>

\* What a pass reads and writes apart from its own frame.
bot_data == <<repo, user_data, order, db, last_global_check, clock, events,
              inbox, scored, refused>>

\* The state of the bot itself.
bot == <<repo, user_data, order, db, last_global_check, clock, events,
         current, pass, inbox, scored, refused>>

vars == <<repo, user_data, order, db, last_global_check, clock, events,
          current, pass, inbox, scored, refused, aux>>

\* ------------------------------------------------------------ pure helpers
\* Python truthiness of current_challenge (None and '' are falsy).
Truthy(c) == c # None /\ c # ""

Contains(seq, x) == \E k \in 1..Len(seq) : seq[k] = x

\* Lines 291-296 without the `not in badges` tests.
AppendIfEarnedUnchecked(badges, points, threshold, badge) ==
    IF points >= threshold THEN Append(badges, badge) ELSE badges

AppendIfEarned(badges, points, threshold, badge) ==
    IF points >= threshold /\ ~Contains(badges, badge)
    THEN Append(badges, badge) ELSE badges

\* update_badges: appends to the list it is given, in this order.
update_badges(data) ==
    LET b1 == AppendIfEarned(data.badges, data.points, BronzeThreshold, Bronze)
        b2 == AppendIfEarned(b1, data.points, SilverThreshold, Silver)
        b3 == AppendIfEarned(b2, data.points, GoldThreshold, Gold)
    IN  [data EXCEPT !.badges = b3]

\* json.dumps / json.loads of the badge list, isoformat / fromisoformat.
JsonDumps(badges) == <<"json", badges>>
JsonLoads(text) == text[2]
IsoFormat(t) == <<"iso", t>>
FromIsoFormat(text) == text[2]

\* The tuple save_user_data binds to the INSERT OR REPLACE (without the key).
ToRow(data) ==
    <<data.github_user, data.points, JsonDumps(data.badges),
      data.current_challenge, IsoFormat(data.last_activity_check)>>

\* One row as load_user_data turns it into a record.
FromRow(row) ==
    [github_user |-> row[1],
     points |-> row[2],
     badges |-> JsonLoads(row[3]),
     current_challenge |-> row[4],
     last_activity_check |-> FromIsoFormat(row[5])]

load_user_data(table) == [d \in DOMAIN table |-> FromRow(table[d])]

\* Lines 131-137 stamping the new record with the time of the command.
NewUserStampedNow(github_username, global_check) ==
    [github_user |-> github_username, points |-> 0, badges |-> <<>>,
     current_challenge |-> None, last_activity_check |-> clock]

\* The record link_github builds.
NewUser(github_username, global_check) ==
    [github_user |-> github_username,
     points |-> 0,
     badges |-> <<>>,
     current_challenge |-> None,
     last_activity_check |-> global_check]

\* Activity of gh_user after last_check, as the three queries count it.
Count(gh_user, last_check, kind) ==
    Cardinality({e \in events :
        e.user = gh_user /\ e.kind = kind /\ e.ts > last_check})

Seen(gh_user, last_check) ==
    {e \in events : e.user = gh_user /\ e.ts > last_check}

\* Lines 210-220 with ten points for every kind of activity.
NewPointsFlatRate(gh_user, last_check) ==
    Cardinality(Seen(gh_user, last_check)) * CommitPoints

NewPoints(gh_user, last_check) ==
    Count(gh_user, last_check, "commit") * CommitPoints
    + Count(gh_user, last_check, "comment") * CommentPoints
    + Count(gh_user, last_check, "review") * ReviewPoints

\* -------------------------------------------------------- the pass, per user
\* Reconciled with `data['points'] = new_points` for line 221.
ReconciledOverwritingScore(data, new_points, now) ==
    LET d1 == [data EXCEPT !.points = new_points]
        d2 == update_badges(d1)
        d3 == IF Truthy(d2.current_challenge) /\ new_points > 0
              THEN [d2 EXCEPT !.points = @ + ChallengeBonus,
                              !.current_challenge = None]
              ELSE d2
    IN  [d3 EXCEPT !.last_activity_check = now]

\* Reconciled without line 227.
ReconciledKeepingChallenge(data, new_points, now) ==
    LET d1 == [data EXCEPT !.points = @ + new_points]
        d2 == update_badges(d1)
        d3 == IF Truthy(d2.current_challenge) /\ new_points > 0
              THEN [d2 EXCEPT !.points = @ + ChallengeBonus]
              ELSE d2
    IN  [d3 EXCEPT !.last_activity_check = now]

\* Reconciled with datetime.now(timezone.utc) read again at line 228.
ReconciledStampingFinishTime(data, new_points, now) ==
    LET d1 == [data EXCEPT !.points = @ + new_points]
        d2 == update_badges(d1)
        d3 == IF Truthy(d2.current_challenge) /\ new_points > 0
              THEN [d2 EXCEPT !.points = @ + ChallengeBonus,
                              !.current_challenge = None]
              ELSE d2
    IN  [d3 EXCEPT !.last_activity_check = clock]

\* Lines 221-228: the record a user is left with once its three queries have
\* returned new_points.  update_badges runs on the score before the bonus.
Reconciled(data, new_points, now) ==
    LET d1 == [data EXCEPT !.points = @ + new_points]
        d2 == update_badges(d1)
        d3 == IF Truthy(d2.current_challenge) /\ new_points > 0
              THEN [d2 EXCEPT !.points = @ + ChallengeBonus,
                              !.current_challenge = None]
              ELSE d2
    IN  [d3 EXCEPT !.last_activity_check = now]

\* AfterFetchError with line 228 moved into a finally clause.
AfterFetchErrorStamping(data, now) == [data EXCEPT !.last_activity_check = now]

\* Lines 231-232: a query raised before line 221; the handler only logs.
AfterFetchError(data, now) == data

\* save_user_data: INSERT OR REPLACE of the row, or (lines 98-99) a write error
\* that is logged and swallowed, leaving the table as it was.
\* Line 90 as INSERT OR IGNORE: a row that exists is left as it is.
save_user_data_or_ignore(table, discord_id, data, write_ok) ==
    IF write_ok /\ discord_id \notin DOMAIN table
    THEN [d \in DOMAIN table \cup {discord_id} |->
            IF d = discord_id THEN ToRow(data) ELSE table[d]]
    ELSE table

save_user_data(table, discord_id, data, write_ok) ==
    IF write_ok
    THEN [d \in DOMAIN table \cup {discord_id} |->
            IF d = discord_id THEN ToRow(data) ELSE table[d]]
    ELSE table

\* LoopAfterUser with the queries awaited: the loop is free between users.
LoopAfterUserAwaited(t) == "idle"

\* poll_github_once has no await in its body: after a user is done the event
\* loop is still running the same task.
LoopAfterUser(t) == t

IdlePass ==
    [active |-> FALSE, now |-> Epoch, i |-> 0,
     preData |-> <<>>, preDb |-> <<>>, result |-> <<>>, gained |-> <<>>]

\* A task can take a step when the loop runs it or is free to resume it.
Runnable(t) == current = t \/ current = "idle"

PassAtEnd(t) == pass[t].active /\ pass[t].i > Len(order)

\* The history counts to two: once, or more than once.
Bump(counts, keys) ==
    [k \in DOMAIN counts \cup keys |->
        IF k \notin keys THEN counts[k]
        ELSE IF k \in DOMAIN counts THEN 2 ELSE 1]

Put(f, k, v) == [x \in DOMAIN f \cup {k} |-> IF x = k THEN v ELSE f[x]]

\* ------------------------------------------------------------ leaderboard
LeaderboardIdle == [pc |-> "idle", sorted_users |-> <<>>, idx |-> 1, lines |-> <<>>]

\* No record update_badges is being applied to.
NoLab == <<>>

\* list.insert for a stable sort by points, highest first: d goes behind
\* every entry that has at least its points.
RECURSIVE InsertDesc(_, _, _)
InsertDesc(s, d, data) ==
    IF s = <<>> THEN <<d>>
    ELSE IF data[Head(s)].points >= data[d].points
         THEN <<Head(s)>> \o InsertDesc(Tail(s), d, data)
         ELSE <<d>> \o s

\* Line 162: sorted(self.user_data.items(), key=points, reverse=True); the
\* sort is stable, so equal scores keep the dict's order.  The pairs hold
\* the record objects of self.user_data, not copies: the model keeps the
\* keys and reads the records when a line is built.
RECURSIVE SortedUsers(_, _)
SortedUsers(ids, data) ==
    IF ids = <<>> THEN <<>>
    ELSE InsertDesc(SortedUsers(SubSeq(ids, 1, Len(ids) - 1), data),
                    ids[Len(ids)], data)

\* Lines 159-165: a non-empty ledger is sorted, then the handler awaits the
\* first fetch_user and the loop is free.
LeaderboardStart ==
    /\ current = "idle"
    /\ lb.pc \in {"idle", "sent"}
    /\ order # <<>>
    /\ lb' = [pc |-> "lines", sorted_users |-> SortedUsers(order, user_data),
              idx |-> 1, lines |-> <<>>]
    /\ UNCHANGED <<bot, gem, lab, crashed>>

\* Lines 165-166: fetch_user has returned; the line is built from the record
\* as it is now, and the handler awaits again (the next fetch_user, or
\* ctx.send).
LeaderboardLine ==
    /\ current = "idle"
    /\ lb.pc = "lines"
    /\ lb.idx <= Len(lb.sorted_users)
    /\ LET data == user_data[lb.sorted_users[lb.idx]]
       IN  lb' = [lb EXCEPT
                    !.idx = @ + 1,
                    !.lines = Append(@, [github_user |-> data.github_user,
                                          points |-> data.points,
                                          badges |-> data.badges])]
    /\ UNCHANGED <<bot, gem, lab, crashed>>

\* Line 167: the text is sent.
LeaderboardSend ==
    /\ current = "idle"
    /\ lb.pc = "lines"
    /\ lb.idx > Len(lb.sorted_users)
    /\ lb' = [lb EXCEPT !.pc = "sent"]
    /\ UNCHANGED <<bot, gem, lab, crashed>>

\* ------------------------------------------------------------ call_gemini
\* range(3) of line 269.
MaxAttempts == 3
\* The base of `2 ** attempt`, line 280.
BackoffBase == 2

\* str(e) of the exceptions urlopen and the parsing of the body raise, cut
\* into pieces so that `"429" in str(e)` can be computed.
RateLimitMsg == <<"HTTP Error ", "429", ": Too Many Requests">>
ServerErrorMsg == <<"HTTP Error ", "500", ": Internal Server Error">>
\* json.loads on a body that breaks off at offset 429.
DecodeErrorMsg ==
    <<"Unterminated string starting at: line 1 column 430 (char ", "429", ")">>

\* What the service does with one request: it answers 200 with a text,
\* answers 429, answers 500, or answers 200 with a body json.loads rejects.
Ok200 == [status |-> 200, text |-> <<" ", "Review one PR", "\n">>]
Http429 == [status |-> 429, msg |-> RateLimitMsg]
Http500 == [status |-> 500, msg |-> ServerErrorMsg]
Broken200 == [status |-> 200, msg |-> DecodeErrorMsg]
Outcomes == {Ok200, Http429, Http500, Broken200}
Raises(outcome) == "msg" \in DOMAIN outcome

\* The answers the service has ready for the attempts of one call.
Scripts == [1..MaxAttempts -> Outcomes]
NoScript == [k \in 1..MaxAttempts |-> Ok200]

\* Line 278: "429" in str(e).
Has429(msg) == Contains(msg, "429")

Whitespace == {" ", "\n"}
RECURSIVE LStrip(_)
LStrip(s) ==
    IF s # <<>> /\ Head(s) \in Whitespace THEN LStrip(Tail(s)) ELSE s
RECURSIVE RStrip(_)
RStrip(s) ==
    IF s # <<>> /\ s[Len(s)] \in Whitespace
    THEN RStrip(SubSeq(s, 1, Len(s) - 1)) ELSE s
\* str.strip() of line 274.
Strip(s) == RStrip(LStrip(s))

\* Line 283.
ErrorCallingAI(msg) == <<"Error calling AI: ">> \o msg
\* Line 286.
RateLimitExceeded == <<"Error: Gemini API rate limit exceeded.">>

RECURSIVE Pow(_, _)
Pow(b, n) == IF n = 0 THEN 1 ELSE b * Pow(b, n - 1)

\* Line 280 with a delay that grows by one second.
BackoffLinear(attempt) == attempt + 1

\* Line 280: 2 ** attempt.
Backoff(attempt) == Pow(BackoffBase, attempt)

\* attempt is the loop variable of line 269, calls the answers received,
\* slept the arguments of time.sleep, ret the value returned.
GeminiIdle(script) ==
    [pc |-> "idle", script |-> script, attempt |-> 0, calls |-> <<>>,
     slept |-> <<>>, ret |-> None]

\* Lines 266-269: the call enters the loop.
GeminiStart ==
    /\ gem.pc = "idle"
    /\ gem' = [gem EXCEPT !.pc = "loop"]
    /\ UNCHANGED <<bot, lb, lab, crashed>>

\* Lines 269-275: an attempt whose request is answered and parsed.
GeminiAttemptReturns ==
    /\ gem.pc = "loop"
    /\ gem.attempt < MaxAttempts
    /\ LET outcome == gem.script[gem.attempt + 1]
       IN  /\ ~Raises(outcome)
           /\ gem' = [gem EXCEPT !.pc = "done",
                                  !.calls = Append(@, outcome),
                                  !.ret = Strip(outcome.text)]
    /\ UNCHANGED <<bot, lb, lab, crashed>>

\* Lines 277-283: an attempt that raises.
GeminiAttemptRaises ==
    /\ gem.pc = "loop"
    /\ gem.attempt < MaxAttempts
    /\ LET outcome == gem.script[gem.attempt + 1]
       IN  /\ Raises(outcome)
           /\ gem' = IF Has429(outcome.msg)
                      THEN [gem EXCEPT !.calls = Append(@, outcome),
                                       !.slept = Append(@, Backoff(gem.attempt)),
                                       !.attempt = @ + 1]
                      ELSE [gem EXCEPT !.pc = "done",
                                       !.calls = Append(@, outcome),
                                       !.ret = ErrorCallingAI(outcome.msg)]
    /\ UNCHANGED <<bot, lb, lab, crashed>>

\* Lines 285-286: the loop ran out.
GeminiExhausted ==
    /\ gem.pc = "loop"
    /\ gem.attempt = MaxAttempts
    /\ gem' = [gem EXCEPT !.pc = "done", !.ret = RateLimitExceeded]
    /\ UNCHANGED <<bot, lb, lab, crashed>>

\* ------------------------------------------------------------------- Init
\* Process start (__init__): repo is None, the ledger is what load_user_data
\* reads from the table a previous run left (nothing, or a user that earned
\* its first badge in a pass at time 1), last_global_check is the epoch.
StoredRow ==
    ToRow([github_user |-> "alice", points |-> 10, badges |-> <<Bronze>>,
           current_challenge |-> None, last_activity_check |-> 1])

StoredTables == {<<>>, [d \in {1} |-> StoredRow]}

Init ==
    /\ repo = None
    /\ db \in StoredTables
    /\ user_data = load_user_data(db)
    /\ order = IF db = <<>> THEN <<>> ELSE <<1>>
    /\ last_global_check = Epoch
    /\ clock = 1
    /\ events = {}
    /\ current = "idle"
    /\ pass = [t \in Tasks |-> IdlePass]
    /\ inbox = 0
    /\ scored = <<>>
    /\ refused = FALSE
    /\ gem = GeminiIdle(NoScript)
    /\ lb = LeaderboardIdle
    /\ lab = NoLab
    /\ crashed = {}

\* ------------------------------------------------------------ environment
\* Time passes, at any moment (also while a pass is blocked in a GitHub call).
Tick ==
    /\ clock < MaxTime
    /\ clock' = clock + 1
    /\ UNCHANGED <<repo, user_data, order, db, last_global_check, events,
                   current, pass, inbox, scored>>
    /\ UNCHANGED <<refused, aux>>

\* Time passes and a commit, issue comment or review by gh_user lands in the
\* repository, stamped with the new time.
Activity(gh_user, kind) ==
    /\ clock < MaxTime
    /\ clock' = clock + 1
    /\ events' = events \cup {[user |-> gh_user, kind |-> kind, ts |-> clock + 1]}
    /\ UNCHANGED <<repo, user_data, order, db, last_global_check,
                   current, pass, inbox, scored>>
    /\ UNCHANGED <<refused, aux>>

\* An !update_stats message arrives while the loop is busy; its handler runs
\* once the loop is free.
UpdateStatsArrives ==
    /\ current # "idle"
    /\ inbox = 0
    /\ inbox' = 1
    /\ UNCHANGED <<repo, user_data, order, db, last_global_check, clock,
                   events, current, pass, scored>>
    /\ UNCHANGED <<refused, aux>>

\* The users whose row is not what save_user_data would write for them now.
Stale ==
    {d \in DOMAIN user_data :
        d \notin DOMAIN db \/ db[d] # ToRow(user_data[d])}

\* Whether one call of save_user_data gets its row written: a write can fail
\* while fewer than MaxStale rows lag.
WriteOutcome(write_ok) == write_ok \/ Cardinality(Stale) < MaxStale

\* ---------------------------------------------------------------- commands
set_repo_ok ==
    /\ current = "idle"
    /\ repo' = RepoObj
    /\ UNCHANGED <<user_data, order, db, last_global_check, clock, events,
                   current, pass, inbox, scored>>
    /\ UNCHANGED <<refused, aux>>

\* get_repo raised: the assignment of line 118 never happens.
set_repo_error ==
    /\ current = "idle"
    /\ UNCHANGED vars

\* The guard of lines 128-130 (`if self.repo is None`) let through whatever
\* self.repo is.
RepoIsSetOrNot == TRUE

\* Lines 128-130: link_github goes on only when a repository is set.
RepoIsSet == repo # None

\* Lines 128-130 taken: the reply is sent and the handler returns.
link_github_no_repo ==
    /\ current = "idle"
    /\ ~RepoIsSet
    /\ refused' = TRUE
    /\ UNCHANGED <<repo, user_data, order, db, last_global_check, clock,
                   events, current, pass, inbox, scored>>
    /\ UNCHANGED aux

link_github(author, github_username, write_ok) ==
    /\ current = "idle"
    /\ RepoIsSet
    /\ WriteOutcome(write_ok)
    /\ LET rec == NewUser(github_username, last_global_check)
       IN  /\ user_data' = Put(user_data, author, rec)
           /\ db' = save_user_data(db, author, rec, write_ok)
    /\ order' = IF author \in DOMAIN user_data THEN order
                ELSE Append(order, author)
    /\ scored' = [k \in {x \in DOMAIN scored : x[1] # author} |-> scored[k]]
    /\ UNCHANGED <<repo, last_global_check, clock, events, current, pass,
                   inbox>>
    /\ UNCHANGED <<refused, aux>>

my_challenge(author, challenge, write_ok) ==
    /\ current = "idle"
    /\ repo # None
    /\ author \in DOMAIN user_data
    /\ WriteOutcome(write_ok)
    /\ LET rec == [user_data[author] EXCEPT !.current_challenge = challenge]
       IN  /\ user_data' = [user_data EXCEPT ![author] = rec]
           /\ db' = save_user_data(db, author, rec, write_ok)
    /\ UNCHANGED <<repo, order, last_global_check, clock, events, current,
                   pass, inbox, scored>>
    /\ UNCHANGED <<refused, aux>>

\* ------------------------------------------------------ poll_github_once
\* Line 202, entered from poll_github_periodic (only `if self.repo`) or from
\* the handler of an update_stats message, waiting or just arrived.
PassStart(t) ==
    /\ current = "idle"
    /\ ~pass[t].active
    /\ IF t = "timer"
       THEN repo # None /\ inbox' = inbox
       ELSE inbox' = 0
    /\ pass' = [pass EXCEPT ![t] =
                  [active |-> TRUE, now |-> clock, i |-> 1,
                   preData |-> user_data, preDb |-> db,
                   result |-> <<>>, gained |-> <<>>]]
    /\ current' = t
    /\ UNCHANGED <<repo, user_data, order, db, last_global_check, clock,
                   events, scored>>
    /\ UNCHANGED <<refused, aux>>

\* One iteration of the loop of line 203 in which a query raises (always so
\* when self.repo is None).
PollUserFetchError(t) ==
    /\ pass[t].active
    /\ Runnable(t)
    /\ pass[t].i <= Len(order)
    /\ LET disc_id == order[pass[t].i]
       IN  /\ user_data' = [user_data EXCEPT ![disc_id] =
                               AfterFetchError(user_data[disc_id], pass[t].now)]
           /\ pass' = [pass EXCEPT
                  ![t].i = @ + 1,
                  ![t].result = Put(@, disc_id, "fetch_error"),
                  ![t].gained = Put(@, disc_id, 0)]
    /\ current' = LoopAfterUser(t)
    /\ UNCHANGED <<repo, order, db, last_global_check, clock, events, inbox,
                   scored>>
    /\ UNCHANGED <<refused, aux>>

\* One iteration in which the three queries return.
PollUserOk(t, write_ok) ==
    /\ pass[t].active
    /\ Runnable(t)
    /\ pass[t].i <= Len(order)
    /\ repo # None
    /\ WriteOutcome(write_ok)
    /\ LET disc_id == order[pass[t].i]
           data == user_data[disc_id]
           gh_user == data.github_user
           last_check == data.last_activity_check
           new_points == NewPoints(gh_user, last_check)
           rec == Reconciled(data, new_points, pass[t].now)
       IN  /\ user_data' = [user_data EXCEPT ![disc_id] = rec]
           /\ db' = save_user_data(db, disc_id, rec, write_ok)
           /\ scored' = Bump(scored,
                  {<<disc_id, e>> : e \in Seen(gh_user, last_check)})
           /\ pass' = [pass EXCEPT
                  ![t].i = @ + 1,
                  ![t].result = Put(@, disc_id,
                        IF write_ok THEN "ok" ELSE "save_error"),
                  ![t].gained = Put(@, disc_id, new_points)]
    /\ current' = LoopAfterUser(t)
    /\ UNCHANGED <<repo, order, last_global_check, clock, events, inbox>>
    /\ UNCHANGED <<refused, aux>>

\* Line 233 run only when some user of the pass was processed.
CheckpointOnlyAfterSuccess(old, now, result) ==
    IF \E u \in DOMAIN result : result[u] = "ok" THEN now ELSE old

\* Line 233: after the loop, whatever happened in it, the checkpoint becomes
\* the `now` of line 202.
CheckpointAfterPass(old, now, result) == now

\* Line 233, then the return to the caller, which awaits (sleep or ctx.send).
PassFinish(t) ==
    /\ pass[t].active
    /\ Runnable(t)
    /\ pass[t].i > Len(order)
    /\ last_global_check' =
          CheckpointAfterPass(last_global_check, pass[t].now, pass[t].result)
    /\ pass' = [pass EXCEPT ![t] = IdlePass]
    /\ current' = "idle"
    /\ UNCHANGED <<repo, user_data, order, db, clock, events, inbox, scored>>
    /\ UNCHANGED <<refused, aux>>

Next ==
    \/ Tick
    \/ \E h \in Authors, k \in Kinds : Activity(h, k)
    \/ UpdateStatsArrives
    \/ set_repo_ok
    \/ set_repo_error
    \/ link_github_no_repo
    \/ \E r \in LinkRequests, w \in BOOLEAN : link_github(r[1], r[2], w)
    \/ \E a \in DiscordIds, c \in ChallengeTexts, w \in BOOLEAN :
          my_challenge(a, c, w)
    \/ \E t \in Tasks : PassStart(t)
    \/ \E t \in Tasks : PollUserFetchError(t)
    \/ \E t \in Tasks, w \in BOOLEAN : PollUserOk(t, w)
    \/ \E t \in Tasks : PassFinish(t)

Spec == Init /\ [][Next]_vars

\* ------------------------------------------- runs in which every save works
\* The bot when no call of save_user_data fails.
NextSaved ==
    \/ Tick
    \/ \E h \in Authors, k \in Kinds : Activity(h, k)
    \/ UpdateStatsArrives
    \/ set_repo_ok
    \/ set_repo_error
    \/ link_github_no_repo
    \/ \E r \in LinkRequests : link_github(r[1], r[2], TRUE)
    \/ \E a \in DiscordIds, c \in ChallengeTexts : my_challenge(a, c, TRUE)
    \/ \E t \in Tasks : PassStart(t)
    \/ \E t \in Tasks : PollUserFetchError(t)
    \/ \E t \in Tasks : PollUserOk(t, TRUE)
    \/ \E t \in Tasks : PassFinish(t)

SpecSaved == Init /\ [][NextSaved]_vars

\* ---------------------------------------------- call_gemini on its own
\* One call of call_gemini against every script of service answers.
InitGemini ==
    /\ repo = None
    /\ db = <<>>
    /\ user_data = load_user_data(db)
    /\ order = <<>>
    /\ last_global_check = Epoch
    /\ clock = 1
    /\ events = {}
    /\ current = "idle"
    /\ pass = [t \in Tasks |-> IdlePass]
    /\ inbox = 0
    /\ scored = <<>>
    /\ refused = FALSE
    /\ gem \in {GeminiIdle(s) : s \in Scripts}
    /\ lb = LeaderboardIdle
    /\ lab = NoLab
    /\ crashed = {}

NextGemini ==
    \/ GeminiStart
    \/ GeminiAttemptReturns
    \/ GeminiAttemptRaises
    \/ GeminiExhausted

SpecGemini == InitGemini /\ [][NextGemini]_vars

\* ------------------------------------------- one user, any activity
\* c commits, m comments and r reviews by alice, at different times.
ActivityOf(c, m, r) ==
    {[user |-> "alice", kind |-> "commit", ts |-> k] : k \in 1..c}
    \cup {[user |-> "alice", kind |-> "comment", ts |-> k] : k \in 1..m}
    \cup {[user |-> "alice", kind |-> "review", ts |-> k] : k \in 1..r}

\* After set_repo and link_github alice (before any pass), when the
\* repository has seen some activity of alice.
InitScore ==
    /\ repo = RepoObj
    /\ user_data = (1 :> NewUser("alice", Epoch))
    /\ db = save_user_data(<<>>, 1, user_data[1], TRUE)
    /\ order = <<1>>
    /\ last_global_check = Epoch
    /\ clock = MaxCount + 1
    /\ \E c \in 0..MaxCount, m \in 0..MaxCount, r \in 0..MaxCount :
          events = ActivityOf(c, m, r)
    /\ current = "idle"
    /\ pass = [t \in Tasks |-> IdlePass]
    /\ inbox = 0
    /\ scored = <<>>
    /\ refused = FALSE
    /\ gem = GeminiIdle(NoScript)
    /\ lb = LeaderboardIdle
    /\ lab = NoLab
    /\ crashed = {}

NextScore ==
    \/ \E t \in Tasks : PassStart(t)
    \/ \E t \in Tasks : PollUserFetchError(t)
    \/ \E t \in Tasks, w \in BOOLEAN : PollUserOk(t, w)
    \/ \E t \in Tasks : PassFinish(t)

SpecScore == InitScore /\ [][NextScore]_vars

\* ------------------------------------------- update_badges on its own
BadgeScores == {0, 9, 10, 45, 49, 50, 55, 99, 100, 120}

\* The lists of badges without repetition, in any order.
BadgeLists ==
    {s \in UNION {[1..n -> {Bronze, Silver, Gold}] : n \in 0..3} :
        \A i, j \in 1..Len(s) : i # j => s[i] # s[j]}

InitBadges ==
    /\ repo = None
    /\ db = <<>>
    /\ user_data = load_user_data(db)
    /\ order = <<>>
    /\ last_global_check = Epoch
    /\ clock = 1
    /\ events = {}
    /\ current = "idle"
    /\ pass = [t \in Tasks |-> IdlePass]
    /\ inbox = 0
    /\ scored = <<>>
    /\ refused = FALSE
    /\ gem = GeminiIdle(NoScript)
    /\ lb = LeaderboardIdle
    /\ \E p \in BadgeScores, b \in BadgeLists :
          lab = <<[points |-> p, badges |-> b]>>
    /\ crashed = {}

\* self.update_badges(data) on the record the last call left.
ApplyUpdateBadges ==
    /\ Len(lab) <= MaxApplications
    /\ lab' = Append(lab, update_badges(lab[Len(lab)]))
    /\ UNCHANGED <<bot, gem, lb, crashed>>

NextBadges == ApplyUpdateBadges

SpecBadges == InitBadges /\ [][NextBadges]_vars

\* ------------------------------------------------------------- demo.py
\* src/demo.py: the same bot without the table, and with a pass whose
\* queries are not inside a try.
InitDemo ==
    /\ repo = None
    /\ db = <<>>
    /\ user_data = <<>>
    /\ order = <<>>
    /\ last_global_check = Epoch
    /\ clock = 1
    /\ events = {}
    /\ current = "idle"
    /\ pass = [t \in Tasks |-> IdlePass]
    /\ inbox = 0
    /\ scored = <<>>
    /\ refused = FALSE
    /\ gem = GeminiIdle(NoScript)
    /\ lb = LeaderboardIdle
    /\ lab = NoLab
    /\ crashed = {}

\* demo.py lines 50-59.
DemoLinkGithub(author, github_username) ==
    /\ current = "idle"
    /\ repo # None
    /\ user_data' = Put(user_data, author,
                        NewUser(github_username, last_global_check))
    /\ order' = IF author \in DOMAIN user_data THEN order
                ELSE Append(order, author)
    /\ UNCHANGED <<repo, db, last_global_check, clock, events, current, pass,
                   inbox, scored, refused, aux>>

\* demo.py line 114, entered from poll_github_periodic (lines 106-111: while
\* the task lives, and only `if self.repo`) or from update_stats (line 101).
DemoPassStart(t) ==
    /\ current = "idle"
    /\ ~pass[t].active
    /\ t = "timer" => repo # None /\ "timer" \notin crashed
    /\ pass' = [pass EXCEPT ![t] =
                  [active |-> TRUE, now |-> clock, i |-> 1,
                   preData |-> user_data, preDb |-> db,
                   result |-> <<>>, gained |-> <<>>]]
    /\ current' = t
    /\ UNCHANGED <<repo, user_data, order, db, last_global_check, clock,
                   events, inbox, scored, refused, aux>>

\* demo.py lines 115-140: one iteration in which the queries return.
DemoPollUserOk(t) ==
    /\ pass[t].active
    /\ Runnable(t)
    /\ pass[t].i <= Len(order)
    /\ repo # None
    /\ LET disc_id == order[pass[t].i]
           data == user_data[disc_id]
           new_points == NewPoints(data.github_user, data.last_activity_check)
       IN  /\ user_data' = [user_data EXCEPT ![disc_id] =
                               Reconciled(data, new_points, pass[t].now)]
           /\ pass' = [pass EXCEPT
                  ![t].i = @ + 1,
                  ![t].result = Put(@, disc_id, "ok"),
                  ![t].gained = Put(@, disc_id, new_points)]
    /\ current' = LoopAfterUser(t)
    /\ UNCHANGED <<repo, order, db, last_global_check, clock, events, inbox,
                   scored, refused, aux>>

\* demo.py lines 120-131: a query raises (always so when self.repo is None).
\* Nothing catches it in poll_github_once, nor in poll_github_periodic: the
\* call is over before line 141, and so is the task that made it.
DemoPollUserRaises(t) ==
    /\ pass[t].active
    /\ Runnable(t)
    /\ pass[t].i <= Len(order)
    /\ pass' = [pass EXCEPT ![t] = IdlePass]
    /\ current' = "idle"
    /\ crashed' = crashed \cup {t}
    /\ UNCHANGED <<bot_data, gem, lb, lab>>

\* demo.py line 141, then the return to the caller.
DemoPassFinish(t) ==
    /\ pass[t].active
    /\ Runnable(t)
    /\ pass[t].i > Len(order)
    /\ last_global_check' = pass[t].now
    /\ pass' = [pass EXCEPT ![t] = IdlePass]
    /\ current' = "idle"
    /\ UNCHANGED <<repo, user_data, order, db, clock, events, inbox, scored,
                   refused, aux>>

NextDemo ==
    \/ Tick
    \/ \E h \in Authors, k \in Kinds : Activity(h, k)
    \/ set_repo_ok
    \/ \E r \in LinkRequests : DemoLinkGithub(r[1], r[2])
    \/ \E t \in Tasks : DemoPassStart(t)
    \/ \E t \in Tasks : DemoPollUserOk(t)
    \/ \E t \in Tasks : DemoPollUserRaises(t)
    \/ \E t \in Tasks : DemoPassFinish(t)

SpecDemo == InitDemo /\ [][NextDemo]_vars

\* ------------------------------------- leaderboard next to the passes
\* The table a previous run left: two users, in rowid order, with the scores
\* and badges passes gave them.
StoredAlice(points) ==
    ToRow([github_user |-> "alice", points |-> points,
           badges |-> IF points >= BronzeThreshold THEN <<Bronze>> ELSE <<>>,
           current_challenge |-> None, last_activity_check |-> 1])

StoredBob(points) ==
    ToRow([github_user |-> "bob", points |-> points,
           badges |-> IF points >= BronzeThreshold THEN <<Bronze>> ELSE <<>>,
           current_challenge |-> None, last_activity_check |-> 1])

StoredScores == {0, 5, 10, 15}

InitLeaderboard ==
    /\ repo = None
    /\ \E a \in StoredScores, b \in StoredScores :
          db = (1 :> StoredAlice(a)) @@ (2 :> StoredBob(b))
    /\ user_data = load_user_data(db)
    /\ order = <<1, 2>>
    /\ last_global_check = Epoch
    /\ clock = 1
    /\ events = {}
    /\ current = "idle"
    /\ pass = [t \in Tasks |-> IdlePass]
    /\ inbox = 0
    /\ scored = <<>>
    /\ refused = FALSE
    /\ gem = GeminiIdle(NoScript)
    /\ lb = LeaderboardIdle
    /\ lab = NoLab
    /\ crashed = {}

\* The leaderboard command, the passes and the activity of the repository;
\* no link_github and no my_challenge in these runs.
NextLeaderboard ==
    \/ Tick
    \/ \E h \in Authors, k \in Kinds : Activity(h, k)
    \/ set_repo_ok
    \/ \E t \in Tasks : PassStart(t)
    \/ \E t \in Tasks : PollUserFetchError(t)
    \/ \E t \in Tasks, w \in BOOLEAN : PollUserOk(t, w)
    \/ \E t \in Tasks : PassFinish(t)
    \/ LeaderboardStart
    \/ LeaderboardLine
    \/ LeaderboardSend

SpecLeaderboard == InitLeaderboard /\ [][NextLeaderboard]_vars

\* =================================================================== claims
Stored(table, d) == IF d \in DOMAIN table THEN table[d] ELSE <<>>

KeepsBadges(old, new) == \A k \in 1..Len(old) : Contains(new, old[k])

FetchFailed(t, u) == u \in DOMAIN pass[t].result /\ pass[t].result[u] = "fetch_error"
FetchReturned(t, u) == u \in DOMAIN pass[t].result /\ pass[t].result[u] # "fetch_error"

\* The bonus line 226 adds for a user that entered the pass as `before`.
BonusFor(before, gained) ==
    IF Truthy(before.current_challenge) /\ gained > 0 THEN ChallengeBonus ELSE 0

\* In memory the user holds the pass's result: the new score, the pass-start
\* watermark, its old badges and those the new activity reaches.
UpdatedInMemory(t, u) ==
    LET before == pass[t].preData[u]
        gained == pass[t].gained[u]
        after == user_data[u]
    IN  /\ after.last_activity_check = pass[t].now
        /\ after.points = before.points + gained + BonusFor(before, gained)
        /\ KeepsBadges(before.badges, after.badges)
        /\ before.points + gained >= BronzeThreshold => Contains(after.badges, Bronze)
        /\ before.points + gained >= SilverThreshold => Contains(after.badges, Silver)
        /\ before.points + gained >= GoldThreshold => Contains(after.badges, Gold)

UntouchedByPass(t, u) ==
    /\ user_data[u] = pass[t].preData[u]
    /\ Stored(db, u) = Stored(pass[t].preDb, u)

C2_EventScoredAtMostOnce ==
    \A k \in DOMAIN scored : scored[k] <= 1

\* C3: at the end of a pass every user whose fetch returned holds each badge
\* whose threshold its final score (bonus included) reaches.
C3_BadgesMatchFinalScore ==
    \A t \in Tasks :
        PassAtEnd(t) =>
            \A u \in DOMAIN pass[t].result :
                FetchReturned(t, u) =>
                    /\ user_data[u].points >= BronzeThreshold =>
                          Contains(user_data[u].badges, Bronze)
                    /\ user_data[u].points >= SilverThreshold =>
                          Contains(user_data[u].badges, Silver)
                    /\ user_data[u].points >= GoldThreshold =>
                          Contains(user_data[u].badges, Gold)

\* C4: no two executions of poll_github_once overlap: while one task is inside
\* a pass no other task is inside a pass.
C4_PassesNeverOverlap ==
    \A t \in Tasks :
        pass[t].active => \A o \in Tasks \ {t} : ~pass[o].active

\* The timer's pass has processed a user, is not finished, and an update_stats
\* command is waiting for the loop.
C4_Witness ==
    /\ pass["timer"].active
    /\ pass["timer"].i > 1
    /\ pass["timer"].i <= Len(order)
    /\ inbox > 0

\* C5: no step of a pass lowers a tracked user's watermark or score.
C5_PassMonotone ==
    [][(\E t \in Tasks : pass[t].active) =>
          \A u \in DOMAIN user_data :
              /\ u \in DOMAIN user_data'
              /\ user_data'[u].last_activity_check >= user_data[u].last_activity_check
              /\ user_data'[u].points >= user_data[u].points]_vars

\* A pass has raised a user's score and moved its watermark forward.
C5_Witness ==
    \E t \in Tasks : \E u \in DOMAIN pass[t].result :
        /\ pass[t].active
        /\ user_data[u].points > pass[t].preData[u].points
        /\ user_data[u].last_activity_check > pass[t].preData[u].last_activity_check

\* C6: no operation lowers a tracked user's score or removes one of its
\* badges, in memory or in the table.
C6_ScoreAndBadgesNeverLost ==
    [][/\ \A u \in DOMAIN user_data :
             /\ u \in DOMAIN user_data'
             /\ user_data'[u].points >= user_data[u].points
             /\ KeepsBadges(user_data[u].badges, user_data'[u].badges)
       /\ \A u \in DOMAIN db :
             /\ u \in DOMAIN db'
             /\ FromRow(db'[u]).points >= FromRow(db[u]).points
             /\ KeepsBadges(FromRow(db[u]).badges, FromRow(db'[u]).badges)]_vars

\* C7: a tracked user's watermark changes only in the step of a pass that
\* processes that user with its fetch returning, and then it grows.
C7_WatermarkOnlyByReconciliation ==
    [][\A u \in DOMAIN user_data :
          (u \in DOMAIN user_data' /\
           user_data'[u].last_activity_check # user_data[u].last_activity_check) =>
              /\ user_data'[u].last_activity_check > user_data[u].last_activity_check
              /\ \E t \in Tasks :
                    /\ pass[t].active
                    /\ pass[t].i <= Len(order)
                    /\ order[pass[t].i] = u
                    /\ u \in DOMAIN pass'[t].result
                    /\ pass'[t].result[u] # "fetch_error"]_vars

\* C8: at the end of a pass a user whose save failed has the watermark and the
\* score it had at pass start.
C8_SaveErrorLeavesUserUnchanged ==
    \A t \in Tasks :
        PassAtEnd(t) =>
            \A u \in DOMAIN pass[t].result :
                pass[t].result[u] = "save_error" =>
                    /\ user_data[u].last_activity_check =
                          pass[t].preData[u].last_activity_check
                    /\ user_data[u].points = pass[t].preData[u].points

\* C9: a user processed by a pass that had an active challenge and gained
\* points has the challenge cleared and its score raised by the gain plus 20;
\* one that had no active challenge has its score raised by the gain alone.
C9_ChallengeCompletion ==
    \A t \in Tasks : \A u \in DOMAIN pass[t].result :
        FetchReturned(t, u) =>
            LET before == pass[t].preData[u]
                gained == pass[t].gained[u]
            IN  /\ (Truthy(before.current_challenge) /\ gained > 0) =>
                      /\ user_data[u].current_challenge = None
                      /\ user_data[u].points = before.points + gained + 20
                /\ ~Truthy(before.current_challenge) =>
                      user_data[u].points = before.points + gained

\* A pass has processed a user that had an open challenge and new activity.
C9_Witness ==
    \E t \in Tasks : \E u \in DOMAIN pass[t].result :
        /\ FetchReturned(t, u)
        /\ Truthy(pass[t].preData[u].current_challenge)
        /\ pass[t].gained[u] > 0

\* C10: a pass keeps the `now` it captured at its start, and every user whose
\* fetch returned holds that `now` as watermark from then to the pass's end.
C10_WatermarkIsPassStart ==
    /\ [](\A t \in Tasks : \A u \in DOMAIN pass[t].result :
             FetchReturned(t, u) =>
                 user_data[u].last_activity_check = pass[t].now)
    /\ [][\A t \in Tasks :
             (pass[t].active /\ pass'[t].active) => pass'[t].now = pass[t].now]_vars

\* A pass is at its end after the clock moved on, with two users processed,
\* one of them without any new activity.
C10_Witness ==
    \E t \in Tasks :
        /\ PassAtEnd(t)
        /\ clock > pass[t].now
        /\ \E a, b \in DOMAIN pass[t].result :
              /\ a # b
              /\ FetchReturned(t, a) /\ pass[t].gained[a] = 0
              /\ FetchReturned(t, b) /\ pass[t].gained[b] > 0


\* ---- C11 --------------------------------------------------------------
Quiet == current = "idle" /\ \A t \in Tasks : ~pass[t].active

\* The steps a started pass can take.
PassStep(t) ==
    \/ PollUserFetchError(t)
    \/ \E w \in BOOLEAN : PollUserOk(t, w)
    \/ PassFinish(t)

\* C11: a pass that has started can always go on, and the step that ends it
\* leaves last_global_check equal to the `now` the pass read when it
\* started, whatever happened to the users in between (all of them failed,
\* or there was none).
C11_PassEndsAtItsStart ==
    /\ [](\A t \in Tasks : pass[t].active => ENABLED PassStep(t))
    /\ [][\A t \in Tasks :
            pass[t].active /\ ~pass'[t].active
                => last_global_check' = pass[t].now]_vars

\* A pass has ended in which every tracked user failed: the checkpoint has
\* moved and all the watermarks are behind it.
C11_Witness ==
    /\ Quiet
    /\ order # <<>>
    /\ last_global_check > Epoch
    /\ \A u \in DOMAIN user_data :
          user_data[u].last_activity_check < last_global_check

\* ---- C12 --------------------------------------------------------------
\* C12: while no repository is set no step (a link_github request, a failed
\* set_repo, a pass) adds a user or changes a record, in the ledger or in
\* the table; and a repository once set is never unset, so records are
\* created and changed only with a repository.
C12_NoRepoNoLink ==
    [][/\ repo = None =>
            user_data' = user_data /\ order' = order /\ db' = db
       /\ repo # None => repo' = repo]_vars

\* A link_github request was refused and there is still no repository.
C12_Witness ==
    /\ refused
    /\ repo = None
    /\ user_data = load_user_data(db)

\* ---- C13 --------------------------------------------------------------
\* C13: a user link_github adds starts with the value last_global_check has
\* at that moment, and a step that moves last_global_check moves no
\* user's watermark.
C13_WatermarkSnapshot ==
    [][/\ \A u \in DOMAIN user_data' \ DOMAIN user_data :
            /\ user_data'[u].last_activity_check = last_global_check
            /\ last_global_check' = last_global_check
       /\ last_global_check' # last_global_check =>
            \A u \in DOMAIN user_data :
                user_data'[u].last_activity_check
                    = user_data[u].last_activity_check]_vars

\* User 2, linked in this run after a first pass, kept its watermark while a
\* later pass in which it failed moved the checkpoint.
C13_Witness ==
    /\ Quiet
    /\ 2 \in DOMAIN user_data
    /\ user_data[2].points = 0
    /\ user_data[2].last_activity_check > Epoch
    /\ user_data[2].last_activity_check < last_global_check

\* ---- C14 --------------------------------------------------------------
GeminiStep == GeminiAttemptReturns \/ GeminiAttemptRaises \/ GeminiExhausted

AlwaysRateLimited(script) == \A k \in 1..MaxAttempts : script[k] = Http429

\* C14: a call answered 429 on every attempt makes exactly 3 attempts,
\* sleeps 1, 2 and 4 seconds and returns the rate-limit message; whatever
\* the service answers, a call never makes more than 3 attempts and, until
\* it has returned, can take its next step.
C14_RetryBound ==
    /\ Len(gem.calls) <= 3
    /\ gem.pc = "loop" => ENABLED GeminiStep
    /\ gem.pc = "done" /\ AlwaysRateLimited(gem.script) =>
          /\ Len(gem.calls) = 3
          /\ gem.slept = <<1, 2, 4>>
          /\ gem.ret = <<"Error: Gemini API rate limit exceeded.">>

C14_Witness ==
    /\ gem.pc = "done"
    /\ AlwaysRateLimited(gem.script)
    /\ Len(gem.calls) = 3

\* ---- C15 --------------------------------------------------------------
\* C15: every attempt before the last one of a call was answered 429; a call
\* whose last attempt was answered with a text returns that text (stripped),
\* and a call whose last attempt failed otherwise than by a 429 returns the
\* error string made from that failure, having slept only after the 429s.
C15_RetryOnlyOnRateLimit ==
    LET n == Len(gem.calls)
    IN  /\ \A k \in 1..(n - 1) : gem.calls[k].status = 429
        /\ gem.pc = "done" /\ n > 0 /\ gem.calls[n].status # 429 =>
              /\ Len(gem.slept) = n - 1
              /\ gem.ret = IF Raises(gem.calls[n])
                            THEN ErrorCallingAI(gem.calls[n].msg)
                            ELSE Strip(gem.calls[n].text)

\* ---- C16 --------------------------------------------------------------
\* C16: the lines of a leaderboard are one per tracked user and their
\* points never go up from one line to the next, whatever passes ran while
\* the command was waiting for its user lookups.
C16_LeaderboardSorted ==
    /\ \A i, j \in 1..Len(lb.lines) :
          i < j => lb.lines[i].points >= lb.lines[j].points
    /\ lb.pc = "sent" => Len(lb.lines) = Len(order)

\* ---- C17 --------------------------------------------------------------
\* C17: when a pass has fetched c commits, m comments and r reviews for a
\* user that had score 0 and no challenge, the user's score is
\* 10c + 5m + 15r; one commit for a user without badges gives score 10
\* and the Bronze badge alone.
C17_ScoreIsWeightedSum ==
    \A t \in Tasks :
        /\ pass[t].active
        /\ 1 \in DOMAIN pass[t].result
        /\ pass[t].result[1] # "fetch_error"
        /\ pass[t].preData[1].points = 0
        /\ ~Truthy(pass[t].preData[1].current_challenge)
        => LET since == pass[t].preData[1].last_activity_check
               c == Count("alice", since, "commit")
               m == Count("alice", since, "comment")
               r == Count("alice", since, "review")
           IN  /\ user_data[1].points = 10 * c + 5 * m + 15 * r
               /\ c = 1 /\ m = 0 /\ r = 0
                    /\ pass[t].preData[1].badges = <<>>
                  => /\ user_data[1].points = 10
                     /\ user_data[1].badges = <<"Bronze Collaborator">>

\* A pass has scored 2 commits, 1 comment and 3 reviews of a fresh user.
C17_Witness ==
    \E t \in Tasks :
        /\ PassAtEnd(t)
        /\ pass[t].result[1] = "ok"
        /\ pass[t].preData[1].points = 0
        /\ events = ActivityOf(2, 1, 3)
        /\ user_data[1].points = 70

\* ---- C18 --------------------------------------------------------------
\* C18: update_badges keeps every badge the record had, leaves no badge
\* twice in the list, and applied a second time with the same score changes
\* nothing; at 55 points a record holding Bronze ends with Bronze and
\* Silver.
C18_BadgesIdempotent ==
    Len(lab) >= 2 =>
        /\ \A k \in 1..Len(lab[1].badges) :
              Contains(lab[2].badges, lab[1].badges[k])
        /\ \A i, j \in 1..Len(lab[2].badges) :
              i # j => lab[2].badges[i] # lab[2].badges[j]
        /\ Len(lab) >= 3 => lab[3] = lab[2]
        /\ lab[1] = [points |-> 55, badges |-> <<Bronze>>]
              => lab[2].badges = <<Bronze, Silver>>

C18_Witness ==
    /\ Len(lab) = 3
    /\ lab[1] = [points |-> 55, badges |-> <<Bronze>>]
    /\ lab[3].badges = <<Bronze, Silver>>

\* ---- C19 --------------------------------------------------------------
\* C19 (demo.py): no task is ever ended by an error of a pass, and the step
\* that ends a pass comes after the last user and sets last_global_check to
\* the `now` of the pass.
C19_DemoPassCompletes ==
    /\ [](crashed = {})
    /\ [][\A t \in Tasks :
            pass[t].active /\ ~pass'[t].active =>
                /\ pass[t].i > Len(order)
                /\ last_global_check' = pass[t].now]_vars

\* ---- C20 --------------------------------------------------------------
\* C20: when no save has failed and neither a command nor a pass is
\* running, the table has a row for every tracked user and for nobody
\* else, each row reads back as the user's record (GitHub user, points,
\* badges, challenge, watermark), and load_user_data gives the ledger.
C20_StoreAgreesWithLedger ==
    Quiet =>
        /\ DOMAIN db = DOMAIN user_data
        /\ \A u \in DOMAIN user_data :
              LET stored == FromRow(db[u])
              IN  /\ stored.github_user = user_data[u].github_user
                  /\ stored.points = user_data[u].points
                  /\ stored.badges = user_data[u].badges
                  /\ stored.current_challenge = user_data[u].current_challenge
                  /\ stored.last_activity_check
                        = user_data[u].last_activity_check
        /\ load_user_data(db) = user_data

\* Both users are tracked, a pass has scored activity of user 1 and the
\* other user holds a challenge.
C20_Witness ==
    /\ Quiet
    /\ DOMAIN db = {1, 2}
    /\ user_data[1].points > 10
    /\ Truthy(user_data[2].current_challenge)
    /\ last_global_check > Epoch

\* ---- C21 --------------------------------------------------------------
\* C21: a user a pass has processed with nothing fetched (no commit, no
\* comment, no review since its watermark) has the score, the badges and
\* the challenge it had when the pass started.
C21_ZeroCountsOnlyWatermark ==
    \A t \in Tasks : \A u \in DOMAIN user_data :
        pass[t].active /\ FetchReturned(t, u) /\ pass[t].gained[u] = 0
        => /\ user_data[u].points = pass[t].preData[u].points
           /\ user_data[u].badges = pass[t].preData[u].badges
           /\ user_data[u].current_challenge
                 = pass[t].preData[u].current_challenge

\* ---- C22 --------------------------------------------------------------
\* C22: whenever no pass is running, no tracked user's watermark is later
\* than last_global_check.
C22_WatermarkBelowCheckpoint ==
    Quiet =>
        \A u \in DOMAIN user_data :
            user_data[u].last_activity_check <= last_global_check

====
